---- MODULE Spec2Model ----
(***************************************************************************)
(* Model of the project-context-sync hooks: the work-item graph            *)
(* (getNextWorkItem), the verification runner (runVerification,            *)
(* runSmokeTests), the session ledger (track-modification.js,              *)
(* initStateDir), the stop-time validation and completion transition       *)
(* (validate-progress.js), pre-compact.js and the session-end hook with    *)
(* its lock file (session-end.js).                                         *)
(***************************************************************************)
EXTENDS Integers, Sequences, FiniteSets, TLC

VARIABLES config, featureList, ledger, sessionRecord, now, out, ghost,
          lock, errorLog, spawned, procs

\* the state the session-end hook adds: the lock file, the error log, the
\* background processes spawned so far, the invocations in progress
endVars == <<lock, errorLog, spawned, procs>>

vars == <<config, featureList, ledger, sessionRecord, now, out, ghost,
          lock, errorLog, spawned, procs>>

(***************************************************************************)
(* Bounds                                                                  *)
(***************************************************************************)
MaxItems == 2
MaxChecks == 2
MaxTime == 3
MaxCount == 3
MaxSpawns == 2
MaxErrors == 1

\* the clock value of the first event; earlier stamps belong to the past
StartTime == 2
PastTime == 1

(***************************************************************************)
(* Values                                                                  *)
(***************************************************************************)
\* hookInput.session_id || null : a session id, or NoSession for null
NoSession == "null"
Sessions == {"A", "B"}
SessionInputs == Sessions \cup {NoSession}

\* tool_input.file_path made relative to the project root; NoPath when the
\* tool input names no file
NoPath == "null"
UserPaths == {"src/a.js", "src/b.js"}
BookkeepingPaths == {".claude/PROGRESS.md"}
\* the artifacts the engine itself persists under .claude/, as paths
\* relative to the project root: the progress artifact and the feature plan
EngineArtifacts == {".claude/PROGRESS.md", ".claude/feature_list.json"}
EventPaths == UserPaths \cup EngineArtifacts \cup {NoPath}

ItemStatuses == {"pending", "in-progress", "complete", "blocked"}

\* exit status of a command: 0, 1, or NoExit (killed on timeout, e.status = null)
NoExit == -1
ExitCodes == {0, 1, NoExit}

ItemIds == 1..MaxItems

(***************************************************************************)
(* Configuration (context-sync.json merged over the defaults)              *)
(***************************************************************************)
loadConfig == [enabled |-> TRUE, runSmokeTests |-> TRUE, sessionEndSync |-> TRUE,
               minModificationsForSync |-> 1]

(***************************************************************************)
(* Verification checks and the command runner                              *)
(***************************************************************************)
\* A VerificationCheck: expectedExitCode (absent reads as 0), whether an
\* expectedOutput pattern is present, whether new RegExp accepts it, and the
\* optional flag.
Checks == {c \in [expectedExitCode : {0, 1}, expectedOutput : BOOLEAN,
                  validPattern : BOOLEAN, optional : BOOLEAN] :
              ~c.expectedOutput => c.validPattern}

\* What running a command yields: its exit status and whether its captured
\* standard output matches the check's pattern under RegExp.test (a search).
Runs == [exitCode : ExitCodes, matches : BOOLEAN]

CheckLists == UNION {[1..n -> Checks] : n \in 0..MaxChecks}

Passed == [passed |-> TRUE, reason |-> "none"]
Failed(why) == [passed |-> FALSE, reason |-> why]

\* execSync returns normally only for exit status 0; every other outcome throws.
execSyncThrows(run) == run.exitCode # 0

runVerification(verification, run) ==
    LET expectedExit == verification.expectedExitCode
    IN  IF ~execSyncThrows(run)
        THEN \* try branch: expectedExit is computed and never compared; a
             \* SyntaxError of new RegExp lands in the catch with no e.status
             IF verification.expectedOutput /\ ~verification.validPattern
             THEN Failed("Invalid regular expression")
             ELSE IF verification.expectedOutput /\ ~run.matches
             THEN Failed("Output did not match pattern")
             ELSE Passed
        ELSE \* catch branch: only e.status is looked at
             IF run.exitCode = expectedExit
             THEN Passed
             ELSE Failed("Command failed")

(***************************************************************************)
(* Feature list                                                            *)
(***************************************************************************)
\* completedAt = 0 and completedInSession = NoSession stand for "not set"
NoFeatureList == [exists |-> FALSE, status |-> "planning", completedSessions |-> 0,
                  items |-> <<>>]

Item(id, st, deps, checks, at, by) ==
    [id |-> id, status |-> st, dependencies |-> deps, verification |-> checks,
     completedAt |-> at, completedInSession |-> by]

MinOf(S) == CHOOSE i \in S : \A j \in S : i <= j

\* Array.prototype.find / first hit of the for loop: the least index, 0 for none
FirstIndex(S) == IF S = {} THEN 0 ELSE MinOf(S)

completedIds(fl) ==
    {fl.items[i].id : i \in {j \in DOMAIN fl.items : fl.items[j].status = "complete"}}

\* getNextWorkItem without the status test of the scan
getNextWorkItemAnyStatus(fl) ==
    IF ~fl.exists THEN 0
    ELSE LET inProgress == FirstIndex({i \in DOMAIN fl.items :
                                          fl.items[i].status = "in-progress"})
         IN  IF inProgress # 0 THEN inProgress
             ELSE FirstIndex({i \in DOMAIN fl.items :
                                 fl.items[i].dependencies \subseteq completedIds(fl)})

\* getNextWorkItem without the dependency test of the scan
getNextWorkItemIgnoreDeps(fl) ==
    IF ~fl.exists THEN 0
    ELSE LET inProgress == FirstIndex({i \in DOMAIN fl.items :
                                          fl.items[i].status = "in-progress"})
         IN  IF inProgress # 0 THEN inProgress
             ELSE FirstIndex({i \in DOMAIN fl.items : fl.items[i].status = "pending"})

\* getNextWorkItem with the scan for a pending item before the search for
\* an item in progress
getNextWorkItemPendingFirst(fl) ==
    IF ~fl.exists THEN 0
    ELSE LET pending == FirstIndex({i \in DOMAIN fl.items :
                                 /\ fl.items[i].status = "pending"
                                 /\ fl.items[i].dependencies \subseteq completedIds(fl)})
         IN  IF pending # 0 THEN pending
             ELSE FirstIndex({i \in DOMAIN fl.items :
                                 fl.items[i].status = "in-progress"})

\* the index of the returned item in fl.items, 0 for null
getNextWorkItem(fl) ==
    IF ~fl.exists THEN 0
    ELSE LET inProgress == FirstIndex({i \in DOMAIN fl.items :
                                          fl.items[i].status = "in-progress"})
         IN  IF inProgress # 0 THEN inProgress
             ELSE FirstIndex({i \in DOMAIN fl.items :
                                 /\ fl.items[i].status = "pending"
                                 /\ fl.items[i].dependencies \subseteq completedIds(fl)})

getFeatureProgress(fl) ==
    LET n(st) == Cardinality({i \in DOMAIN fl.items : fl.items[i].status = st})
    IN  [total |-> Len(fl.items), completed |-> n("complete"),
         inProgress |-> n("in-progress"), blocked |-> n("blocked"),
         pending |-> n("pending")]

(***************************************************************************)
(* Smoke tests                                                             *)
(***************************************************************************)
NoSmoke == [ran |-> FALSE, itemId |-> 0, tests |-> <<>>, allPassed |-> TRUE]

\* filter(complete && completedAt).sort(newest first)[0]; the sort is stable,
\* so among equal stamps the earlier item of the list comes first
lastCompletedIndex(fl) ==
    LET done == {i \in DOMAIN fl.items :
                    fl.items[i].status = "complete" /\ fl.items[i].completedAt # 0}
    IN  IF done = {} THEN 0
        ELSE MinOf({i \in done : \A j \in done :
                                    fl.items[j].completedAt <= fl.items[i].completedAt})

\* indices of the checks the loop does not skip, in list order
testedChecksAll(verification) == [i \in 1..Len(verification) |-> i]

testedChecks(verification) ==
    SelectSeq([i \in 1..Len(verification) |-> i], LAMBDA i : ~verification[i].optional)

\* runs[i] is what the command of check i yields when (and if) it is run
runSmokeTests(fl, cfg, runs) ==
    IF ~cfg.runSmokeTests \/ ~fl.exists THEN NoSmoke
    ELSE LET last == lastCompletedIndex(fl)
         IN  IF last = 0 THEN NoSmoke
             ELSE IF Len(fl.items[last].verification) = 0 THEN NoSmoke
             ELSE LET verification == fl.items[last].verification
                      idx == testedChecks(verification)
                      tests == [k \in 1..Len(idx) |->
                                   [check |-> idx[k],
                                    passed |-> runVerification(verification[idx[k]],
                                                               runs[idx[k]]).passed,
                                    reason |-> runVerification(verification[idx[k]],
                                                               runs[idx[k]]).reason]]
                  IN  [ran |-> TRUE, itemId |-> fl.items[last].id, tests |-> tests,
                       allPassed |-> \A k \in 1..Len(tests) : tests[k].passed]

(***************************************************************************)
(* Session ledger (modifications.json) and session record                  *)
(* (current-session.json)                                                  *)
(***************************************************************************)
\* shape is what JSON.parse makes of the text of modifications.json: an
\* "object" with its files array, a text that is "unparseable", the literal
\* "null", or an object with "no-files" array.
\* lastModified = 0 stands for null
NoLedger == [exists |-> FALSE, shape |-> "object", sessionId |-> NoSession,
             files |-> <<>>, count |-> 0, lastModified |-> 0]

FreshLedger(sessionId) ==
    [exists |-> TRUE, shape |-> "object", sessionId |-> sessionId, files |-> <<>>,
     count |-> 0, lastModified |-> 0]

NoRecord == [exists |-> FALSE, sessionId |-> NoSession, startTime |-> 0,
             contextSynced |-> FALSE, syncedAt |-> 0, syncedBy |-> "none"]

\* the object session start writes: sessionId, startTime, cwd, contextSynced
FreshRecord(sessionId, t) ==
    [exists |-> TRUE, sessionId |-> sessionId, startTime |-> t,
     contextSynced |-> FALSE, syncedAt |-> 0, syncedBy |-> "none"]

SeqToSet(q) == {q[i] : i \in DOMAIN q}

\* relativePath.includes('.claude/') && (includes('PROGRESS.md') || includes('.context-state'))
isContextFile(relativePath) == relativePath \in BookkeepingPaths

\* loadModifications of track-modification.js: what the file parses to, or
\* the empty default when there is no file or JSON.parse throws
loadModifications(l) ==
    IF l.exists /\ l.shape # "unparseable" THEN l ELSE FreshLedger(NoSession)

\* sessionId && mods.sessionId && mods.sessionId !== sessionId
differentSession(sessionId, owner) ==
    sessionId # NoSession /\ owner # NoSession /\ owner # sessionId

\* main of track-modification.js reads mods.sessionId and mods.files of
\* what it loaded, outside any try: null has no properties, and an object
\* without files has no includes unless the session test replaced it
trackModificationThrows(l, sessionId) ==
    LET loaded == loadModifications(l)
    IN  \/ loaded.shape = "null"
        \/ loaded.shape = "no-files" /\ ~differentSession(sessionId, loaded.sessionId)

\* trackModification counting paths instead of events
trackModificationCountPaths(l, sessionId, relativePath, t) ==
    LET loaded == loadModifications(l)
        mods1 == IF differentSession(sessionId, loaded.sessionId)
                 THEN FreshLedger(sessionId) ELSE loaded
        mods2 == IF sessionId # NoSession /\ mods1.sessionId = NoSession
                 THEN [mods1 EXCEPT !.sessionId = sessionId] ELSE mods1
    IN  [mods2 EXCEPT !.files = IF relativePath \in SeqToSet(mods2.files)
                                THEN @ ELSE Append(@, relativePath),
                      !.count = IF relativePath \in SeqToSet(mods2.files)
                                THEN @ ELSE @ + 1,
                      !.lastModified = t]

\* the ledger track-modification.js saves for a recorded event
trackModification(l, sessionId, relativePath, t) ==
    LET loaded == loadModifications(l)
        mods1 == IF differentSession(sessionId, loaded.sessionId)
                 THEN FreshLedger(sessionId) ELSE loaded
        mods2 == IF sessionId # NoSession /\ mods1.sessionId = NoSession
                 THEN [mods1 EXCEPT !.sessionId = sessionId] ELSE mods1
    IN  [mods2 EXCEPT !.files = IF relativePath \in SeqToSet(mods2.files)
                                THEN @ ELSE Append(@, relativePath),
                      !.count = @ + 1,
                      !.lastModified = t]

\* the ledger part of initStateDir: unlink a ledger of a different
\* session, and one whose reading throws inside the try
initStateDirLedger(l, sessionId) ==
    IF ~l.exists THEN l
    ELSE IF l.shape = "unparseable" THEN NoLedger
    ELSE IF l.shape = "null"
         THEN IF sessionId # NoSession THEN NoLedger ELSE l
         ELSE IF differentSession(sessionId, l.sessionId) THEN NoLedger ELSE l

\* the record part of initStateDir
initStateDirRecord(r, sessionId, t) ==
    IF sessionId # NoSession THEN FreshRecord(sessionId, t) ELSE r

(***************************************************************************)
(* Stop hook: validate-progress.js, and the completion transition          *)
(***************************************************************************)
REQUIRED_SECTIONS == <<"Current State", "Recent Work", "Next Steps">>

\* How PROGRESS.md writes the name of a section: as a heading of level 1 to
\* 4, in bold, or not at all.  The four patterns of checkSections find the
\* headings of level 1 to 3 and the bold text.
HeadingStyles == {"#", "##", "###", "####", "**", "none"}
MatchedStyles == {"#", "##", "###", "**"}

\* the text of PROGRESS.md, by the style each section name is written in
Contents == [SeqToSet(REQUIRED_SECTIONS) -> HeadingStyles]
NoContent == [s \in SeqToSet(REQUIRED_SECTIONS) |-> "none"]

\* What the stop hook finds on disk and in the repository.  commits and
\* uncommitted are the line counts the two git commands print when they
\* succeed; failing holds the commands that throw once git rev-parse has
\* succeeded: git log --since and git status --porcelain.
Envs == {e \in [progressExists : BOOLEAN, content : Contents,
                isGitRepo : BOOLEAN, commits : 0..1, uncommitted : 0..1,
                failing : SUBSET {"log", "status"}] :
            /\ ~e.progressExists => e.content = NoContent
            /\ ~e.isGitRepo => e.failing = {}}

\* patterns.some(p => p.test(content))
sectionExists(content, section) == content[section] \in MatchedStyles

\* checkSections without the pattern for bold text
checkSectionsHeadingsOnly(content) ==
    [found |-> SelectSeq(REQUIRED_SECTIONS,
                         LAMBDA x : sectionExists(content, x) /\ content[x] # "**"),
     missing |-> SelectSeq(REQUIRED_SECTIONS,
                           LAMBDA x : ~(sectionExists(content, x) /\ content[x] # "**"))]

checkSections(content) ==
    [found |-> SelectSeq(REQUIRED_SECTIONS, LAMBDA x : sectionExists(content, x)),
     missing |-> SelectSeq(REQUIRED_SECTIONS, LAMBDA x : ~sectionExists(content, x))]

\* the fragment of the template for a section; the template is the
\* fragments of the sections asked for, joined in their order
Fragment(section) == [heading |-> "##", section |-> section]
generateRepairTemplate(missing) == [k \in 1..Len(missing) |-> Fragment(missing[k])]

\* summary.autoRepair: null, or the template
NoRepair == [available |-> FALSE, template |-> <<>>]
ProjectProgress == [heading |-> "#", section |-> "Project Progress"]

autoRepair(env) ==
    IF env.progressExists
    THEN IF Len(checkSections(env.content).missing) > 0
         THEN [available |-> TRUE,
               template |-> generateRepairTemplate(checkSections(env.content).missing)]
         ELSE NoRepair
    ELSE [available |-> TRUE,
          template |-> <<ProjectProgress>> \o generateRepairTemplate(REQUIRED_SECTIONS)]

\* details.sectionsMissing
sectionsMissing(env) ==
    IF env.progressExists THEN checkSections(env.content).missing ELSE REQUIRED_SECTIONS

\* null is NoCount
NoCount == -1

getCommitsSinceProgress(env) ==
    IF ~env.isGitRepo THEN NoCount
    ELSE IF ~env.progressExists THEN NoCount
    ELSE IF "log" \in env.failing THEN NoCount
    ELSE env.commits

\* getUncommittedCount without the repository test and the catch
getUncommittedCountUnguarded(env) == env.uncommitted

getUncommittedCount(env) ==
    IF ~env.isGitRepo THEN NoCount
    ELSE IF "status" \in env.failing THEN NoCount
    ELSE env.uncommitted

\* getSessionModifications of validate-progress.js; a throw inside its try
\* (JSON.parse, or mods.sessionId of null once sessionId is truthy) yields
\* the default
getSessionModifications(l, sessionId) ==
    IF ~l.exists \/ l.shape = "unparseable" THEN FreshLedger(NoSession)
    ELSE IF l.shape = "null"
         THEN IF sessionId # NoSession THEN FreshLedger(NoSession) ELSE l
         ELSE IF differentSession(sessionId, l.sessionId)
              THEN FreshLedger(NoSession) ELSE l

\* main of validate-progress.js reads mods.count outside any try
validateProgressThrows(l, sessionId) ==
    getSessionModifications(l, sessionId).shape = "null"

\* validation.issues with the modifications issue pushed for any count
validationIssuesAnyCount(env, mods) ==
    LET missing == checkSections(env.content).missing
        progressIssues ==
            IF env.progressExists
            THEN IF Len(missing) > 0 THEN <<"missing-sections">> ELSE <<>>
            ELSE <<"no-progress-file">>
        commitsSince == getCommitsSinceProgress(env)
        commitIssues == IF commitsSince # NoCount /\ commitsSince > 0
                        THEN <<"commits-since-update">> ELSE <<>>
        uncommitted == getUncommittedCount(env)
        uncommittedIssues == IF uncommitted # NoCount /\ uncommitted > 0
                             THEN <<"uncommitted-changes">> ELSE <<>>
        modIssues == IF ~env.progressExists
                     THEN <<"modifications-without-progress">> ELSE <<>>
    IN  progressIssues \o commitIssues \o uncommittedIssues \o modIssues

\* validation.issues as main builds it, one tag per pushed issue
validationIssues(env, mods) ==
    LET missing == checkSections(env.content).missing
        progressIssues ==
            IF env.progressExists
            THEN IF Len(missing) > 0 THEN <<"missing-sections">> ELSE <<>>
            ELSE <<"no-progress-file">>
        commitsSince == getCommitsSinceProgress(env)
        commitIssues == IF commitsSince # NoCount /\ commitsSince > 0
                        THEN <<"commits-since-update">> ELSE <<>>
        uncommitted == getUncommittedCount(env)
        uncommittedIssues == IF uncommitted # NoCount /\ uncommitted > 0
                             THEN <<"uncommitted-changes">> ELSE <<>>
        modIssues == IF mods.count > 0 /\ ~env.progressExists
                     THEN <<"modifications-without-progress">> ELSE <<>>
    IN  progressIssues \o commitIssues \o uncommittedIssues \o modIssues

\* Verification Runner at stop: exit code equals the expected one and, when
\* a pattern is present, the output matches it
verifyCheck(check, run) ==
    IF run.exitCode # check.expectedExitCode THEN Failed("Command failed")
    ELSE IF check.expectedOutput /\ ~run.matches
         THEN Failed("Output did not match pattern")
         ELSE Passed

\* every check of the item is run, in list order
verifyItem(verification, runs) ==
    [k \in 1..Len(verification) |->
        [check |-> verification[k], run |-> runs[k],
         optional |-> verification[k].optional,
         passed |-> verifyCheck(verification[k], runs[k]).passed]]

requiredPassedAny(results) == TRUE

requiredPassed(results) ==
    \A k \in 1..Len(results) : ~results[k].optional => results[k].passed

allItemsComplete(items) == \A i \in DOMAIN items : items[i].status = "complete"

recomputeStatusKeep(fl) == fl.status

recomputeStatus(fl) ==
    IF allItemsComplete(fl.items) THEN "complete" ELSE "in-progress"

completeItemTwice(fl, idx, sessionId, t) ==
    LET done == [fl EXCEPT !.items[idx].status = "complete",
                           !.items[idx].completedAt = t,
                           !.items[idx].completedInSession = sessionId,
                           !.completedSessions = @ + 2]
    IN  [done EXCEPT !.status = recomputeStatus(done)]

\* the completion transition for a passing item
completeItem(fl, idx, sessionId, t) ==
    LET done == [fl EXCEPT !.items[idx].status = "complete",
                           !.items[idx].completedAt = t,
                           !.items[idx].completedInSession = sessionId,
                           !.completedSessions = @ + 1]
    IN  [done EXCEPT !.status = recomputeStatus(done)]

completionTransition(fl, idx, results, sessionId, t) ==
    IF requiredPassed(results) THEN completeItem(fl, idx, sessionId, t) ELSE fl

verificationIssuesNone(results) == <<>>

\* one blocking issue per unmet non-optional check
verificationIssues(results) ==
    LET unmet == SelectSeq(results, LAMBDA r : ~r.optional /\ ~r.passed)
    IN  [k \in 1..Len(unmet) |-> "verification-failed"]

(***************************************************************************)
(* SessionEnd hook: session-end.js                                         *)
(***************************************************************************)
\* Duplicate execution prevention window (milliseconds)
LOCK_WINDOW_MS == 5000

\* the lock file: absent, or lastRun as parseInt reads its text: the time
\* of the last run, or NaN when the text does not start with a number
NoLock == [exists |-> FALSE, lastRun |-> 0]
NaN == -1

\* file-system operations that may throw during one invocation
Faults == {"lock", "record", "spawn", "log"}

\* the hook input: session_id, and whether reason is "exit"
HookInputs == [session_id : SessionInputs, reason : {"exit", "other"}]

\* what the git commands of hasWorkToDocument find
EndEnvs == [isGitRepo : BOOLEAN, uncommitted : 0..1, recentCommits : BOOLEAN]

\* a lock that never expires
lockHeldAlways(l, t) == l.exists

\* a window that is still closed at its last millisecond
lockHeldInclusive(l, t) ==
    l.exists /\ l.lastRun # NaN /\ t - l.lastRun <= LOCK_WINDOW_MS

\* the test acquireLock makes on the lock file it reads at time t
lockHeld(l, t) ==
    l.exists /\ l.lastRun # NaN /\ t - l.lastRun < LOCK_WINDOW_MS

\* acquireLock writing the time of the attempt before it decides
acquireLockTouch(l, t, faults) ==
    IF "lock" \in faults
    THEN [acquired |-> TRUE, lock |-> l, logged |-> TRUE]
    ELSE [acquired |-> ~lockHeld(l, t), lock |-> [exists |-> TRUE, lastRun |-> t],
          logged |-> FALSE]

\* acquireLock testing the lock file and never writing it
acquireLockNoWrite(l, t, faults) ==
    IF "lock" \in faults
    THEN [acquired |-> TRUE, lock |-> l, logged |-> TRUE]
    ELSE [acquired |-> ~lockHeld(l, t), lock |-> l, logged |-> FALSE]

\* acquireLock: whether to proceed, the lock file it leaves, whether it
\* called logError
acquireLock(l, t, faults) ==
    IF "lock" \in faults
    THEN [acquired |-> TRUE, lock |-> l, logged |-> TRUE]
    ELSE IF lockHeld(l, t)
         THEN [acquired |-> FALSE, lock |-> l, logged |-> FALSE]
         ELSE [acquired |-> TRUE, lock |-> [exists |-> TRUE, lastRun |-> t],
               logged |-> FALSE]

\* wasContextSynced without the session test
wasContextSyncedAnySession(r, sessionId, faults) ==
    IF "record" \in faults THEN FALSE
    ELSE IF r.exists THEN r.contextSynced ELSE FALSE

wasContextSynced(r, sessionId, faults) ==
    IF "record" \in faults THEN FALSE
    ELSE IF r.exists
         THEN IF sessionId # NoSession /\ r.sessionId # sessionId
              THEN FALSE
              ELSE r.contextSynced
         ELSE FALSE

\* getSessionModifications of session-end.js; main calls it with a session
\* id only, so mods.sessionId of null throws inside the try
getSessionModificationsEnd(l, sessionId) ==
    IF ~l.exists \/ l.shape = "unparseable" THEN FreshLedger(NoSession)
    ELSE IF l.shape = "null"
         THEN IF sessionId # NoSession THEN FreshLedger(NoSession) ELSE l
         ELSE IF differentSession(sessionId, l.sessionId)
              THEN FreshLedger(NoSession) ELSE l

hasWorkToDocument(sessionId, cfg, l, env) ==
    IF env.isGitRepo /\ env.uncommitted > 0 THEN TRUE
    ELSE IF getSessionModificationsEnd(l, sessionId).count >= cfg.minModificationsForSync
         THEN TRUE
         ELSE IF env.isGitRepo THEN env.recentCommits ELSE FALSE

\* markSynced: the session record it writes, unless the write throws
markSynced(r, sessionId, t, faults) ==
    IF "record" \in faults THEN r
    ELSE [(IF r.exists THEN r ELSE NoRecord) EXCEPT
             !.exists = TRUE, !.sessionId = sessionId, !.contextSynced = TRUE,
             !.syncedAt = t, !.syncedBy = "SessionEnd"]

\* logError: one more line in the error log, unless the log cannot be written
logError(n, faults) == IF "log" \in faults THEN n ELSE n + 1

\* how far main gets once the lock is passed: which exit it takes, or "spawn"
mainAfterLock(input, cfg, r, l, env, faults) ==
    IF input.session_id = NoSession THEN "no-session"
    ELSE IF input.reason # "exit" THEN "not-exit"
    ELSE IF wasContextSynced(r, input.session_id, faults) THEN "already-synced"
    ELSE IF ~hasWorkToDocument(input.session_id, cfg, l, env) THEN "no-work"
    ELSE IF "spawn" \in faults THEN "spawn-failed"
    ELSE "spawned"

\* an invocation of the hook: its position, its input and the time it read
NoProc == [pc |-> "idle"]
ProcIds == {1, 2}
NoProcs == [p \in ProcIds |-> NoProc]

(***************************************************************************)
(* Ghost state                                                             *)
(***************************************************************************)
\* events: the session ids carried by the events whose paths and counts the
\*         ledger file holds now
\* completedWith: per item id, the check results of the transition that set
\*         the item to complete ("init": complete before the first event)
\* before: the feature list as the last session start or stop found it
\* refusedAt: the time of the last session end the lock refused, 0 for none
NoCompletion == [how |-> "none", results |-> <<>>]
NoGhost == [events |-> <<>>, completedWith |-> [i \in ItemIds |-> NoCompletion],
            before |-> NoFeatureList, refusedAt |-> 0]

(***************************************************************************)
(* Handlers                                                                *)
(***************************************************************************)
\* time passes between (and during) hook invocations
Tick ==
    /\ now < MaxTime
    /\ now' = now + 1
    /\ UNCHANGED <<config, featureList, ledger, sessionRecord, out, ghost, endVars>>

\* track-modification.js main (PostToolUse)
TrackModification(sessionId, filePath) ==
    /\ ledger.count < MaxCount
    /\ IF filePath = NoPath \/ isContextFile(filePath)
       THEN /\ UNCHANGED <<ledger, ghost>>
            /\ out' = [op |-> "track", sessionId |-> sessionId, path |-> filePath,
                       recorded |-> FALSE, raised |-> FALSE, exitCode |-> 0,
                       at |-> now, pre |-> ledger]
       ELSE IF trackModificationThrows(ledger, sessionId)
       THEN \* an uncaught TypeError: nothing is saved, node exits with 1
            /\ UNCHANGED <<ledger, ghost>>
            /\ out' = [op |-> "track", sessionId |-> sessionId, path |-> filePath,
                       recorded |-> FALSE, raised |-> TRUE, exitCode |-> 1,
                       at |-> now, pre |-> ledger]
       ELSE /\ ledger' = trackModification(ledger, sessionId, filePath, now)
            /\ ghost' = [ghost EXCEPT !.events =
                            IF differentSession(sessionId, loadModifications(ledger).sessionId)
                            THEN <<sessionId>> ELSE Append(@, sessionId)]
            /\ out' = [op |-> "track", sessionId |-> sessionId, path |-> filePath,
                       recorded |-> TRUE, raised |-> FALSE, exitCode |-> 0,
                       at |-> now, pre |-> ledger]
    /\ UNCHANGED <<config, featureList, sessionRecord, now, endVars>>

\* which closing message main prints for the feature
nextItemOutcome(fl, nextItem) ==
    LET progress == getFeatureProgress(fl)
    IN  IF nextItem # 0 THEN "next-item"
        ELSE IF progress.pending = 0 /\ progress.inProgress = 0 THEN "all-complete"
        ELSE IF progress.blocked > 0 THEN "blocked"
        ELSE "nothing"

\* session-start.js main (SessionStart)
SessionStart(sessionId, runs) ==
    /\ IF ~config.enabled
       THEN /\ UNCHANGED <<ledger, sessionRecord, ghost>>
            /\ out' = [op |-> "sessionStart", sessionId |-> sessionId, ran |-> FALSE,
                       raised |-> FALSE, exitCode |-> 0]
       ELSE /\ ledger' = initStateDirLedger(ledger, sessionId)
            /\ sessionRecord' = initStateDirRecord(sessionRecord, sessionId, now)
            /\ ghost' = [ghost EXCEPT !.events =
                                         IF initStateDirLedger(ledger, sessionId).exists
                                         THEN @ ELSE <<>>,
                                     !.before = featureList]
            /\ LET active == featureList.exists /\ featureList.status # "complete"
                   nextItem == IF active THEN getNextWorkItem(featureList) ELSE 0
                   smoke == IF /\ active
                               /\ config.runSmokeTests
                               /\ getFeatureProgress(featureList).completed > 0
                            THEN runSmokeTests(featureList, config, runs)
                            ELSE NoSmoke
                   focus == IF featureList.exists /\ featureList.status = "in-progress"
                            THEN getNextWorkItem(featureList) ELSE 0
               IN  out' = [op |-> "sessionStart", sessionId |-> sessionId, ran |-> TRUE,
                           raised |-> FALSE, exitCode |-> 0,
                           active |-> active, nextItem |-> nextItem, smoke |-> smoke,
                           runs |-> runs,
                           regression |-> smoke.ran /\ ~smoke.allPassed,
                           outcome |-> IF active
                                       THEN nextItemOutcome(featureList, nextItem)
                                       ELSE "no-feature",
                           focus |-> focus]
    /\ UNCHANGED <<config, featureList, now, endVars>>

\* summary.valid computed with an off-by-one length test
summaryValidFirstOnly(issues) == Len(issues) <= 1

\* summary.valid, and the exit status 0 that goes with it
summaryValid(issues) == Len(issues) = 0

\* validate-progress.js main (Stop), with the completion transition
Stop(sessionId, env, runs) ==
    LET mods == getSessionModifications(ledger, sessionId)
        idx == getNextWorkItem(featureList)
        results == IF idx # 0
                   THEN verifyItem(featureList.items[idx].verification, runs)
                   ELSE <<>>
        issues == validationIssues(env, mods) \o verificationIssues(results)
    IN  IF validateProgressThrows(ledger, sessionId)
        THEN \* an uncaught TypeError: no summary is printed, node exits with 1
             /\ out' = [op |-> "stop", sessionId |-> sessionId, at |-> now,
                        raised |-> TRUE, exitCode |-> 1]
             /\ UNCHANGED <<config, featureList, ledger, sessionRecord, now, ghost,
                            endVars>>
        ELSE
        /\ featureList' = IF idx # 0
                          THEN completionTransition(featureList, idx, results,
                                                    sessionId, now)
                          ELSE featureList
        /\ ghost' = IF idx # 0 /\ featureList' # featureList
                    THEN [ghost EXCEPT !.completedWith[featureList.items[idx].id] =
                                          [how |-> "stop", results |-> results],
                                       !.before = featureList]
                    ELSE [ghost EXCEPT !.before = featureList]
        /\ out' = [op |-> "stop", sessionId |-> sessionId, at |-> now, item |-> idx,
                   wasStatus |-> IF idx # 0 THEN featureList.items[idx].status
                                 ELSE "none",
                   results |-> results, issues |-> issues, raised |-> FALSE,
                   valid |-> summaryValid(issues),
                   exitCode |-> IF summaryValid(issues) THEN 0 ELSE 1,
                   sessionModifications |-> mods.count, env |-> env,
                   commitsSinceUpdate |-> getCommitsSinceProgress(env),
                   uncommittedChanges |-> getUncommittedCount(env),
                   sectionsPresent |-> IF env.progressExists
                                       THEN checkSections(env.content).found
                                       ELSE <<>>,
                   sectionsMissing |-> sectionsMissing(env),
                   autoRepair |-> autoRepair(env)]
        /\ UNCHANGED <<config, ledger, sessionRecord, now, endVars>>

\* pre-compact.js (PreCompact)
FIVE_MINUTES_MS == 300000

\* loadModifications of pre-compact.js: what the file parses to, whatever
\* session wrote it
loadModificationsPreCompact(l) ==
    IF l.exists /\ l.shape # "unparseable" THEN l ELSE FreshLedger(NoSession)

\* mtime is the modification time of PROGRESS.md, 0 when there is none;
\* mods.lastModified of null throws inside the try
progressRecentlyUpdated(mtime, l, t) ==
    IF mtime = 0 THEN FALSE
    ELSE IF loadModificationsPreCompact(l).shape = "null" THEN FALSE
    ELSE IF loadModificationsPreCompact(l).lastModified # 0
         THEN mtime > loadModificationsPreCompact(l).lastModified
         ELSE mtime > t - FIVE_MINUTES_MS

\* main of pre-compact.js reads mods.count, and mods.files once it warns,
\* outside any try
preCompactThrows(mtime, l, t) ==
    LET mods == loadModificationsPreCompact(l)
    IN  \/ mods.shape = "null"
        \/ /\ mods.shape = "no-files"
           /\ mods.count > 0 /\ ~progressRecentlyUpdated(mtime, l, t)

PreCompact(sessionId, mtime) ==
    LET mods == loadModificationsPreCompact(ledger)
        raised == preCompactThrows(mtime, ledger, now)
        warned == /\ ~raised
                  /\ mods.count > 0 /\ ~progressRecentlyUpdated(mtime, ledger, now)
    IN  /\ out' = [op |-> "preCompact", sessionId |-> sessionId, warned |-> warned,
                   sessionModifications |-> mods.count,
                   reportedFiles |-> IF warned THEN mods.files ELSE <<>>,
                   raised |-> raised,
                   exitCode |-> IF raised THEN 1 ELSE 0]
        /\ UNCHANGED <<config, featureList, ledger, sessionRecord, now, ghost, endVars>>

\* the exit status if main did not catch the failed spawn
endExitCodeUncaught(path) == IF path = "spawn-failed" THEN 1 ELSE 0

\* the exit status main ends with on each of its paths: every path ends in
\* process.exit(0), a failed spawn included (main catches it)
endExitCode(path) == 0

\* time passes between hook invocations, up to the instant t
Elapse(t) ==
    /\ now < t
    /\ now' = t
    /\ UNCHANGED <<config, featureList, ledger, sessionRecord, out, ghost, endVars>>

\* session-end.js main (SessionEnd), run from start to exit with no other
\* invocation in between
SessionEnd(input, env, faults) ==
    LET sessionId == input.session_id
        pre == [lock |-> lock, sessionRecord |-> sessionRecord, ledger |-> ledger,
                errorLog |-> errorLog, spawned |-> spawned,
                refusedAt |-> ghost.refusedAt]
        acq == acquireLock(lock, now, faults)
        path == IF ~config.enabled \/ ~config.sessionEndSync THEN "disabled"
                ELSE IF ~acq.acquired THEN "refused"
                ELSE mainAfterLock(input, config, sessionRecord, ledger, env, faults)
        log1 == IF path # "disabled" /\ acq.logged THEN logError(errorLog, faults)
                ELSE errorLog
        log2 == IF path \in {"no-session", "spawn-failed"} THEN logError(log1, faults)
                ELSE IF path = "spawned" /\ "record" \in faults
                     THEN logError(log1, faults)
                     ELSE log1
    IN  /\ log2 <= MaxErrors
        /\ path = "spawned" => Len(spawned) < MaxSpawns
        /\ lock' = IF path = "disabled" THEN lock ELSE acq.lock
        /\ errorLog' = log2
        /\ spawned' = IF path = "spawned" THEN Append(spawned, sessionId) ELSE spawned
        /\ sessionRecord' = IF path = "spawned"
                            THEN markSynced(sessionRecord, sessionId, now, faults)
                            ELSE sessionRecord
        /\ out' = [op |-> "sessionEnd", sessionId |-> sessionId, at |-> now,
                   reason |-> input.reason, env |-> env, faults |-> faults,
                   path |-> path, raised |-> FALSE,
                   exitCode |-> endExitCode(path),
                   sessionModifications |->
                       getSessionModificationsEnd(ledger, sessionId).count,
                   pre |-> pre]
        /\ ghost' = [ghost EXCEPT !.refusedAt = IF path = "refused" THEN now ELSE @]
        /\ UNCHANGED <<config, featureList, ledger, now, procs>>

\* The same main as the steps another invocation can run between: each
\* step is one access to the files the invocations share.
\* acquireLock up to its test of the lock file
EndBegin(p, input, env) ==
    /\ procs[p].pc = "idle"
    /\ procs' = [procs EXCEPT ![p] =
                    [pc |-> IF ~config.enabled \/ ~config.sessionEndSync
                               \/ lockHeld(lock, now)
                            THEN "done" ELSE "acquire",
                     input |-> input, env |-> env, t |-> now,
                     path |-> IF ~config.enabled \/ ~config.sessionEndSync
                              THEN "disabled"
                              ELSE IF lockHeld(lock, now) THEN "refused" ELSE "running"]]
    /\ UNCHANGED <<config, featureList, ledger, sessionRecord, now, out, ghost,
                   lock, errorLog, spawned>>

\* acquireLock's write of the time it read at its start
EndWriteLock(p) ==
    /\ procs[p].pc = "acquire"
    /\ lock' = acquireLock(NoLock, procs[p].t, {}).lock
    /\ procs' = [procs EXCEPT ![p].pc = "check"]
    /\ UNCHANGED <<config, featureList, ledger, sessionRecord, now, out, ghost,
                   errorLog, spawned>>

\* main from the session id test to the end of hasWorkToDocument
EndCheck(p) ==
    /\ procs[p].pc = "check"
    /\ LET path == mainAfterLock(procs[p].input, config, sessionRecord, ledger,
                                 procs[p].env, {})
       IN  /\ procs' = [procs EXCEPT ![p].pc = IF path = "spawned" THEN "spawn"
                                               ELSE "done",
                                     ![p].path = IF path = "spawned" THEN "running"
                                                 ELSE path]
           /\ errorLog' = IF path = "no-session" THEN logError(errorLog, {})
                          ELSE errorLog
    /\ UNCHANGED <<config, featureList, ledger, sessionRecord, now, out, ghost,
                   lock, spawned>>

\* spawnBackgroundSync and markSynced
EndSpawn(p) ==
    /\ procs[p].pc = "spawn"
    /\ spawned' = Append(spawned, procs[p].input.session_id)
    /\ sessionRecord' = markSynced(sessionRecord, procs[p].input.session_id, now, {})
    /\ procs' = [procs EXCEPT ![p].pc = "done", ![p].path = "spawned"]
    /\ UNCHANGED <<config, featureList, ledger, now, out, ghost, lock, errorLog>>

\* track-modification.js main up to loadModifications: the invocation holds
\* the ledger as it read it
TrackLoad(p, sessionId, filePath) ==
    /\ procs[p].pc = "idle"
    /\ filePath # NoPath /\ ~isContextFile(filePath)
    /\ ~trackModificationThrows(ledger, sessionId)
    /\ procs' = [procs EXCEPT ![p] =
                    [pc |-> "loaded", sessionId |-> sessionId, path |-> filePath,
                     read |-> ledger]]
    /\ UNCHANGED <<config, featureList, ledger, sessionRecord, now, out, ghost,
                   lock, errorLog, spawned>>

\* the rest of main: saveModifications writes the copy the invocation
\* updated over whatever the file holds by then
TrackSave(p) ==
    /\ procs[p].pc = "loaded" /\ "path" \in DOMAIN procs[p]
    /\ ledger' = trackModification(procs[p].read, procs[p].sessionId,
                                   procs[p].path, now)
    /\ procs' = [procs EXCEPT ![p].pc = "saved"]
    /\ out' = [op |-> "track", sessionId |-> procs[p].sessionId,
               path |-> procs[p].path, recorded |-> TRUE, raised |-> FALSE,
               exitCode |-> 0, at |-> now, pre |-> procs[p].read, proc |-> p]
    /\ UNCHANGED <<config, featureList, sessionRecord, now, ghost,
                   lock, errorLog, spawned>>

\* markSynced up to its read of current-session.json
SyncLoad(p, sessionId) ==
    /\ procs[p].pc = "idle"
    /\ procs' = [procs EXCEPT ![p] =
                    [pc |-> "loaded", sessionId |-> sessionId, read |-> sessionRecord]]
    /\ UNCHANGED <<config, featureList, ledger, sessionRecord, now, out, ghost,
                   lock, errorLog, spawned>>

\* markSynced's writeFileSync of the record it read and updated
SyncSave(p) ==
    /\ procs[p].pc = "loaded" /\ "path" \notin DOMAIN procs[p]
    /\ sessionRecord' = markSynced(procs[p].read, procs[p].sessionId, now, {})
    /\ procs' = [procs EXCEPT ![p].pc = "saved"]
    /\ out' = [op |-> "markSynced", sessionId |-> procs[p].sessionId, at |-> now,
               pre |-> procs[p].read, proc |-> p]
    /\ UNCHANGED <<config, featureList, ledger, now, ghost, lock, errorLog, spawned>>

(***************************************************************************)
(* Specifications                                                          *)
(***************************************************************************)
NoOut == [op |-> "none"]

InitState ==
    /\ config = loadConfig
    /\ ledger = NoLedger
    /\ sessionRecord = NoRecord
    /\ now = StartTime
    /\ out = NoOut
    /\ lock = NoLock
    /\ errorLog = 0
    /\ spawned = <<>>
    /\ procs = NoProcs

\* --- Spec: the feature lifecycle (session start, stop) ---

\* check lists the planned items carry
RequiredCheck == [expectedExitCode |-> 0, expectedOutput |-> FALSE,
                  validPattern |-> TRUE, optional |-> FALSE]
OptionalCheck == [expectedExitCode |-> 0, expectedOutput |-> FALSE,
                  validPattern |-> TRUE, optional |-> TRUE]
ExpectFailCheck == [expectedExitCode |-> 1, expectedOutput |-> TRUE,
                    validPattern |-> TRUE, optional |-> FALSE]
PlannedCheckLists == {<<RequiredCheck, OptionalCheck>>, <<ExpectFailCheck>>}

\* the session that completed the items found complete at the start
PriorSession == "P"

\* a feature list as the data model describes it: ids in list order,
\* dependencies on earlier items, completed items stamped and counted, the
\* list complete iff every item is
PlannedItems(n, st, dp, cl) ==
    [i \in 1..n |->
        Item(i, st[i], dp[i], cl,
             IF st[i] = "complete" THEN PastTime ELSE 0,
             IF st[i] = "complete" THEN PriorSession ELSE NoSession)]

PlannedStatus(items) ==
    IF allItemsComplete(items) THEN "complete"
    ELSE IF \E i \in DOMAIN items : items[i].status \in {"complete", "in-progress"}
         THEN "in-progress"
         ELSE "planning"

PlannedFeatureList(items) ==
    [exists |-> TRUE, status |-> PlannedStatus(items),
     completedSessions |-> Cardinality({i \in DOMAIN items :
                                          items[i].status = "complete"}),
     items |-> items]

InitGhost(fl) ==
    [events |-> <<>>, before |-> fl, refusedAt |-> 0,
     completedWith |-> [i \in ItemIds |->
        IF i \in DOMAIN fl.items /\ fl.items[i].status = "complete"
        THEN [how |-> "init", results |-> <<>>] ELSE NoCompletion]]

Init ==
    /\ InitState
    /\ \/ featureList = NoFeatureList
       \/ \E n \in 1..MaxItems, cl \in PlannedCheckLists :
            \E st \in [1..n -> ItemStatuses], dp \in [1..n -> SUBSET ItemIds] :
               /\ \A i \in 1..n : dp[i] \subseteq 1..(i-1)
               /\ featureList = PlannedFeatureList(PlannedItems(n, st, dp, cl))
    /\ ghost = InitGhost(featureList)

LifecycleSessions == {"A"}

AllSections == [s \in SeqToSet(REQUIRED_SECTIONS) |-> "##"]
CleanEnv == [progressExists |-> TRUE, content |-> AllSections,
             isGitRepo |-> TRUE, commits |-> 0, uncommitted |-> 0, failing |-> {}]
StaleEnv == [progressExists |-> TRUE, content |-> AllSections,
             isGitRepo |-> TRUE, commits |-> 1, uncommitted |-> 0, failing |-> {}]
StopEnvs == {CleanEnv, StaleEnv}

\* what the commands of an item's checks yield, one entry per check: each
\* command exits 0 or 1 and prints what the pattern looks for
PlannedRuns == {r \in Runs : r.exitCode \in {0, 1} /\ r.matches}
RunsFor(verification) == [1..Len(verification) -> PlannedRuns]

SmokeRuns(fl) ==
    IF fl.exists /\ lastCompletedIndex(fl) # 0
    THEN RunsFor(fl.items[lastCompletedIndex(fl)].verification)
    ELSE {<<>>}

StopRuns(fl) ==
    IF getNextWorkItem(fl) # 0
    THEN RunsFor(fl.items[getNextWorkItem(fl)].verification)
    ELSE {<<>>}

StartSession == \E s \in LifecycleSessions, runs \in SmokeRuns(featureList) : SessionStart(s, runs)

StopSession == \E s \in LifecycleSessions, env \in StopEnvs, runs \in StopRuns(featureList) : Stop(s, env, runs)

Next == StartSession \/ StopSession

Spec == Init /\ [][Next]_vars

\* --- SpecSelect: getNextWorkItem on every feature list ---

AnyItems(n, st, dp) ==
    [i \in 1..n |->
        Item(i, st[i], dp[i], <<>>,
             IF st[i] = "complete" THEN PastTime ELSE 0,
             IF st[i] = "complete" THEN PriorSession ELSE NoSession)]

AnyFeatureList(items) ==
    [exists |-> TRUE, status |-> "in-progress", completedSessions |-> 0,
     items |-> items]

InitSelect ==
    /\ InitState
    /\ \E n \in 1..MaxItems :
         \E st \in [1..n -> ItemStatuses], dp \in [1..n -> SUBSET ItemIds] :
            featureList = AnyFeatureList(AnyItems(n, st, dp))
    /\ ghost = NoGhost

SelectNext ==
    /\ out = NoOut
    /\ out' = [op |-> "getNextWorkItem", item |-> getNextWorkItem(featureList)]
    /\ UNCHANGED <<config, featureList, ledger, sessionRecord, now, ghost, endVars>>

SpecSelect == InitSelect /\ [][SelectNext]_vars

\* --- SpecVerify: runVerification and runSmokeTests on every check list ---

VerifiedList(checks) ==
    [exists |-> TRUE, status |-> "in-progress", completedSessions |-> 1,
     items |-> <<Item(1, "complete", {}, checks, PastTime, PriorSession)>>]

InitVerify ==
    /\ InitState
    /\ \E checks \in CheckLists : featureList = VerifiedList(checks)
    /\ ghost = NoGhost

RunCheck ==
    \E k \in DOMAIN featureList.items[1].verification, run \in Runs :
        /\ out = NoOut
        /\ out' = [op |-> "runVerification",
                   check |-> featureList.items[1].verification[k], run |-> run,
                   result |-> runVerification(featureList.items[1].verification[k], run)]
        /\ UNCHANGED <<config, featureList, ledger, sessionRecord, now, ghost, endVars>>

SmokeTest ==
    \E runs \in [1..Len(featureList.items[1].verification) -> Runs] :
        /\ out = NoOut
        /\ out' = [op |-> "runSmokeTests", runs |-> runs,
                   smoke |-> runSmokeTests(featureList, config, runs)]
        /\ UNCHANGED <<config, featureList, ledger, sessionRecord, now, ghost, endVars>>

SpecVerify == InitVerify /\ [][RunCheck \/ SmokeTest]_vars

\* --- SpecLedger: file-modification events and session starts ---

InitLedger ==
    /\ InitState
    /\ featureList = NoFeatureList
    /\ ghost = NoGhost

ToolUse == \E s \in SessionInputs, p \in EventPaths : TrackModification(s, p)

NewSession == \E s \in SessionInputs : SessionStart(s, <<>>)

SpecLedger == InitLedger /\ [][Tick \/ ToolUse \/ NewSession]_vars

\* --- SpecEnd: session-end invocations, one after the other ---

EndConfigs == {loadConfig, [loadConfig EXCEPT !.enabled = FALSE],
               [loadConfig EXCEPT !.sessionEndSync = FALSE]}

\* the ledger the session's tool events left: none, or one recorded file
LedgerOf(sessionId) ==
    trackModification(NoLedger, sessionId, "src/a.js", PastTime)

EndLedgers == {NoLedger, LedgerOf("A")}

InitEnd ==
    /\ config \in EndConfigs
    /\ featureList = NoFeatureList
    /\ ledger \in EndLedgers
    /\ sessionRecord = NoRecord
    /\ now = StartTime
    /\ out = NoOut
    /\ ghost = NoGhost
    /\ lock = NoLock
    /\ errorLog = 0
    /\ spawned = <<>>
    /\ procs = NoProcs

\* the instants of the invocations: the first one, 1 s later, at the end of
\* the window and 10 s after the first
Instants == {StartTime + d : d \in {0, 1000, LOCK_WINDOW_MS, 2 * LOCK_WINDOW_MS}}

\* the working trees an invocation finds: not a repository, clean, clean
\* with a commit in the last hour, uncommitted changes
WorkEnvs == {e \in EndEnvs : /\ ~e.isGitRepo => (e.uncommitted = 0 /\ ~e.recentCommits)
                             /\ e.uncommitted > 0 => ~e.recentCommits}

\* the payloads the host sends: a normal exit of either session, an exit
\* without a session id, an end of session A for another reason
EndInputs == {i \in HookInputs : i.reason = "exit" \/ i.session_id = "A"}

\* one file-system operation fails in the invocation
FaultSets == {{f} : f \in Faults}
FaultInputs == {i \in EndInputs : i.reason = "exit" /\ i.session_id = "A"}
FaultEnvs == {e \in WorkEnvs : e.isGitRepo /\ ~e.recentCommits}

Wait == \E t \in Instants : Elapse(t)

EndSession == \E input \in EndInputs, env \in WorkEnvs : SessionEnd(input, env, {})

EndSessionFault ==
    \E input \in FaultInputs, env \in FaultEnvs, faults \in FaultSets :
        SessionEnd(input, env, faults)

SpecEnd == InitEnd /\ [][Wait \/ EndSession \/ EndSessionFault]_vars

\* --- SpecResume: session starts between the session-end invocations ---

\* the hooks are enabled and session A has recorded one modification
SpecResume ==
    /\ config = loadConfig /\ featureList = NoFeatureList
    /\ ledger = LedgerOf("A") /\ sessionRecord = NoRecord
    /\ now = StartTime /\ out = NoOut /\ ghost = NoGhost
    /\ lock = NoLock /\ errorLog = 0 /\ spawned = <<>> /\ procs = NoProcs
    /\ [][Wait \/ EndSession \/ NewSession]_vars

\* --- SpecLock: session-end invocations on the lock files another writer,
\* or a clock set back, can leave: none, a text that is no number, the
\* time of the start, a time later than every invocation ---

SpecLock ==
    /\ config = loadConfig /\ featureList = NoFeatureList
    /\ ledger = LedgerOf("A") /\ sessionRecord = NoRecord
    /\ now = StartTime /\ out = NoOut /\ ghost = NoGhost
    /\ lock \in {NoLock} \cup {[exists |-> TRUE, lastRun |-> v] :
                                  v \in {NaN, StartTime, StartTime + 3 * LOCK_WINDOW_MS}}
    /\ errorLog = 0 /\ spawned = <<>> /\ procs = NoProcs
    /\ [][Wait \/ EndSession \/ EndSessionFault]_vars

\* --- SpecOverlap: two file-modification events and one markSynced whose
\* reads and writes interleave, with session starts in between ---

SpecOverlap ==
    /\ config = loadConfig /\ featureList = NoFeatureList
    /\ ledger = NoLedger /\ sessionRecord = NoRecord
    /\ now = StartTime /\ out = NoOut /\ ghost = NoGhost
    /\ lock = NoLock /\ errorLog = 0 /\ spawned = <<>>
    /\ procs = [p \in ProcIds \cup {0} |-> NoProc]
    /\ [][ \/ \E p \in ProcIds, s \in Sessions, f \in UserPaths : TrackLoad(p, s, f)
           \/ \E p \in ProcIds : TrackSave(p)
           \/ \E s \in Sessions : SyncLoad(0, s)
           \/ SyncSave(0)
           \/ NewSession ]_vars

\* --- SpecRace: the host fires SessionEnd twice, the invocations overlap ---

InitRace ==
    /\ InitState
    /\ featureList = NoFeatureList
    /\ ghost = NoGhost

\* the exit of session A in a repository with no recent commit, as in the
\* invocations with a fault
BeginEnd == \E p \in ProcIds, input \in FaultInputs, env \in FaultEnvs : EndBegin(p, input, env)

WriteLock == \E p \in ProcIds : EndWriteLock(p)

CheckEnd == \E p \in ProcIds : EndCheck(p)

SpawnEnd == \E p \in ProcIds : EndSpawn(p)

SpecRace == InitRace /\ [][Wait \/ BeginEnd \/ WriteLock \/ CheckEnd \/ SpawnEnd]_vars

\* --- SpecStop: validate-progress.js on every documentation artifact ---

\* the ledgers the tool events of a session, or events without a session
\* id, leave behind
StopLedgers == {NoLedger} \cup {LedgerOf(s) : s \in SessionInputs}

\* a feature with one item in progress
OneItemList ==
    PlannedFeatureList(PlannedItems(1, <<"in-progress">>, <<{}>>, <<RequiredCheck>>))

InitStop ==
    /\ config = loadConfig
    /\ featureList \in {NoFeatureList, OneItemList}
    /\ ledger \in StopLedgers
    /\ sessionRecord = NoRecord
    /\ now = StartTime
    /\ out = NoOut
    /\ ghost = InitGhost(featureList)
    /\ lock = NoLock
    /\ errorLog = 0
    /\ spawned = <<>>
    /\ procs = NoProcs

StopOnce ==
    /\ out = NoOut
    /\ \E s \in SessionInputs, env \in Envs, runs \in StopRuns(featureList) :
          Stop(s, env, runs)

SpecStop == InitStop /\ [][StopOnce]_vars

\* --- SpecHooks: two sessions in one project, and the hooks that read the
\* ledger ---

\* PROGRESS.md is absent (0) or was written at PastTime
ProgressTimes == {0, PastTime}
NoProgressEnv == [progressExists |-> FALSE, content |-> NoContent,
                  isGitRepo |-> TRUE, commits |-> 0, uncommitted |-> 0,
                  failing |-> {}]
CleanTree == [isGitRepo |-> TRUE, uncommitted |-> 0, recentCommits |-> FALSE]

StopHook == \E s \in Sessions : Stop(s, NoProgressEnv, <<>>)

EndHook == \E s \in Sessions : SessionEnd([session_id |-> s, reason |-> "exit"], CleanTree, {})

CompactHook == \E s \in Sessions, mtime \in ProgressTimes : PreCompact(s, mtime)

SpecHooks == InitLedger /\ [][ToolUse \/ NewSession \/ StopHook \/ EndHook \/ CompactHook]_vars

\* --- SpecDamaged: the hooks on a ledger file that is not what
\* track-modification.js writes ---

\* no ledger file, or one that does not parse, that holds the literal
\* null, or that holds an object without a files array (with or without
\* owner and count)
InitDamaged ==
    /\ config = loadConfig
    /\ featureList = NoFeatureList
    /\ ledger \in {NoLedger}
          \cup {[FreshLedger(NoSession) EXCEPT !.shape = sh] :
                   sh \in {"unparseable", "null"}}
          \cup {[FreshLedger(s) EXCEPT !.shape = "no-files", !.count = c] :
                   s \in {NoSession, "A"}, c \in 0..1}
    /\ sessionRecord = NoRecord
    /\ now = StartTime
    /\ out = NoOut
    /\ ghost = NoGhost
    /\ lock = NoLock
    /\ errorLog = 0
    /\ spawned = <<>>
    /\ procs = NoProcs

StopHookAny == \E s \in SessionInputs : Stop(s, NoProgressEnv, <<>>)

SpecDamaged == InitDamaged /\ [][ToolUse \/ NewSession \/ StopHookAny \/ EndHook \/ CompactHook]_vars

\* --- SpecDisabled: the hooks with enabled: false in context-sync.json ---

InitDisabled ==
    /\ config = [loadConfig EXCEPT !.enabled = FALSE]
    /\ featureList = NoFeatureList
    /\ ledger = NoLedger
    /\ sessionRecord = NoRecord
    /\ now = StartTime
    /\ out = NoOut
    /\ ghost = NoGhost
    /\ lock = NoLock
    /\ errorLog = 0
    /\ spawned = <<>>
    /\ procs = NoProcs

SpecDisabled == InitDisabled /\ [][ToolUse \/ NewSession \/ StopHook \/ EndHook \/ CompactHook]_vars

\* --- SpecCycle: session starts and stops on feature lists whose
\* dependencies may point anywhere ---

\* feature_list.json as an editor may leave it with no item in progress:
\* any other status for each item, any set of ids (its own, later ones, ids
\* of no item) as dependencies
InitCycle ==
    /\ InitState
    /\ \E n \in 1..MaxItems :
         \E st \in [1..n -> ItemStatuses \ {"in-progress"}],
            dp \in [1..n -> SUBSET ItemIds] :
            featureList = PlannedFeatureList(PlannedItems(n, st, dp, <<RequiredCheck>>))
    /\ ghost = InitGhost(featureList)

StopCycle ==
    \E s \in LifecycleSessions, runs \in StopRuns(featureList) : Stop(s, CleanEnv, runs)

SpecCycle == InitCycle /\ [][StartSession \/ StopCycle]_vars

\* --- SpecLive: session start and stop repeated on a feature list with no
\* blocked item, whose dependencies name items of the list and form no
\* cycle, and whose required checks pass whenever they are run ---

StopPassing ==
    \E s \in LifecycleSessions, runs \in StopRuns(featureList) :
        /\ getNextWorkItem(featureList) # 0 =>
              requiredPassed(verifyItem(
                  featureList.items[getNextWorkItem(featureList)].verification, runs))
        /\ Stop(s, CleanEnv, runs)

\* the host starts and stops sessions for as long as the user works on the
\* feature: neither hook is postponed forever
SpecLive ==
    /\ config = loadConfig /\ ledger = NoLedger /\ sessionRecord = NoRecord
    /\ now = StartTime /\ out = NoOut
    /\ lock = NoLock /\ errorLog = 0 /\ spawned = <<>> /\ procs = NoProcs
    /\ \E n \in 1..MaxItems :
         \E st \in [1..n -> ItemStatuses \ {"blocked"}],
            dp \in [1..n -> SUBSET (1..n)] :
            /\ \E rank \in [1..n -> 1..n] :
                  \A i \in 1..n : \A j \in dp[i] : rank[j] < rank[i]
            /\ featureList = PlannedFeatureList(
                                 PlannedItems(n, st, dp, <<RequiredCheck>>))
    /\ ghost = InitGhost(featureList)
    /\ [][StartSession \/ StopPassing]_vars
    /\ WF_vars(StartSession) /\ WF_vars(StopPassing)

(***************************************************************************)
(* Claims                                                                  *)
(***************************************************************************)

\* C1: getNextWorkItem never returns an item whose status is complete and
\* never returns an item that has a dependency outside the ids of the
\* complete items, the in-progress item it prefers included.
C1_NeverCompleteNeverUnmet ==
    (out.op = "getNextWorkItem" /\ out.item # 0) =>
        /\ featureList.items[out.item].status # "complete"
        /\ featureList.items[out.item].dependencies \subseteq completedIds(featureList)

C4_CompletionTransition ==
    (out.op = "stop" /\ ghost.before.exists) =>
        LET items == ghost.before.items
            inProgress == {i \in DOMAIN items : items[i].status = "in-progress"}
            eligible == {i \in DOMAIN items :
                            /\ items[i].status = "pending"
                            /\ \A d \in items[i].dependencies :
                                  \E j \in DOMAIN items :
                                      items[j].id = d /\ items[j].status = "complete"}
            target == IF inProgress # {} THEN inProgress ELSE eligible
        IN  \A idx \in target :
              ( /\ \A j \in target : idx <= j
                /\ \A k \in DOMAIN out.results :
                      ~out.results[k].optional => out.results[k].passed )
              =>
              ( /\ out.item = idx
                /\ featureList.items[idx].status = "complete"
                /\ featureList.items[idx].completedAt = out.at
                /\ featureList.items[idx].completedInSession = out.sessionId
                /\ featureList.completedSessions = ghost.before.completedSessions + 1
                /\ featureList.status = "complete" <=>
                       allItemsComplete(featureList.items)
                /\ \A j \in DOMAIN items : j # idx => featureList.items[j] = items[j] )

\* C4 witness: a stop of session A completed an in-progress item and left
\* the list in progress
C4_Witness ==
    /\ out.op = "stop" /\ out.item # 0 /\ out.sessionId = "A"
    /\ out.wasStatus = "in-progress"
    /\ featureList.items[out.item].status = "complete"
    /\ featureList.items[out.item].completedInSession = "A"
    /\ featureList.items[out.item].completedAt = out.at
    /\ featureList.completedSessions = ghost.before.completedSessions + 1
    /\ featureList.status = "in-progress"

\* C5: at stop, when a non-optional check of the current item fails, the
\* whole feature list (item status, stamps, counter, list status) is left as
\* it was, each failed check is a blocking issue, and the summary is not
\* valid.
C5_FailedChecksBlock ==
    ( /\ out.op = "stop" /\ out.item # 0
      /\ \E k \in DOMAIN out.results :
            ~out.results[k].optional /\ ~out.results[k].passed )
    =>
    ( /\ featureList = ghost.before
      /\ featureList.items[out.item].status \in {"in-progress", "pending"}
      /\ Cardinality({n \in DOMAIN out.issues : out.issues[n] = "verification-failed"})
           = Cardinality({k \in DOMAIN out.results :
                             ~out.results[k].optional /\ ~out.results[k].passed})
      /\ ~out.valid
      /\ out.exitCode = 1 )

\* C5 witness: in a clean project the failed check is the only issue, the
\* summary is not valid and the item is still pending
C5_Witness ==
    /\ out.op = "stop" /\ out.item # 0
    /\ out.issues = <<"verification-failed">>
    /\ ~out.valid
    /\ featureList.items[out.item].status = "pending"
    /\ featureList.items[out.item].completedAt = 0

C7_ExitCodeDecides ==
    out.op = "runVerification" =>
        /\ out.result.passed => out.run.exitCode = out.check.expectedExitCode
        /\ (out.check.expectedExitCode = 1 /\ out.run.exitCode = 1) => out.result.passed
        /\ (out.check.expectedExitCode = 1 /\ out.run.exitCode = 0) => ~out.result.passed

\* C8: for a check with an expected-output pattern, whatever its expected
\* exit code, runVerification passes only if the exit code equals the
\* expected one and the output matches the pattern.
C8_PatternAlwaysChecked ==
    (out.op = "runVerification" /\ out.check.expectedOutput) =>
        (out.result.passed =>
            /\ out.run.exitCode = out.check.expectedExitCode
            /\ out.run.matches)

\* C9: the aggregate allPassed of the smoke test is true whenever every
\* non-optional check passes, whatever the optional checks do, and no
\* optional check appears among the reported tests.
C9_OptionalNeverBlocks ==
    (out.op = "runSmokeTests" /\ out.smoke.ran) =>
        LET verification == featureList.items[1].verification
        IN  /\ (\A k \in DOMAIN verification :
                   ~verification[k].optional =>
                       runVerification(verification[k], out.runs[k]).passed)
               => out.smoke.allPassed
            /\ \A t \in DOMAIN out.smoke.tests :
                   ~verification[out.smoke.tests[t].check].optional

\* C9 witness: the command of an optional check failed, the required check
\* passed, and the aggregate is true
C9_Witness ==
    /\ out.op = "runSmokeTests" /\ out.smoke.ran
    /\ out.smoke.allPassed /\ Len(out.smoke.tests) = 1
    /\ \E k \in DOMAIN featureList.items[1].verification :
          /\ featureList.items[1].verification[k].optional
          /\ ~runVerification(featureList.items[1].verification[k], out.runs[k]).passed

\* C10: every path and every counted modification the ledger holds was
\* recorded by an event that carried the ledger's owning session id, events
\* without a session id and ledgers without an owner included.
C10_LedgerOwnedByOneSession ==
    \A k \in DOMAIN ghost.events : ghost.events[k] = ledger.sessionId

\* C11: no hook run for a session (stop, session end, pre-compact) reports,
\* counts or decides by the modifications of a ledger that another session
\* owns: it sees no modification and pre-compact gives no warning.
C11_OtherSessionsLedgerIgnored ==
    ( /\ out.op \in {"stop", "sessionEnd", "preCompact"}
      /\ out.sessionId \in Sessions
      /\ ledger.exists /\ ledger.sessionId \in Sessions
      /\ ledger.sessionId # out.sessionId )
    =>
    ( /\ out.sessionModifications = 0
      /\ out.op = "preCompact" => (~out.warned /\ out.reportedFiles = <<>>) )

\* C12: with the lock written at time T by the last invocation that
\* proceeded, an invocation at T + 1 s is refused and an invocation at
\* T + 10 s passes the lock and writes its own time.
C12_LockWindow ==
    ( /\ out.op = "sessionEnd" /\ out.path # "disabled"
      /\ "lock" \notin out.faults
      /\ out.pre.lock.exists )
    =>
    ( /\ out.at = out.pre.lock.lastRun + 1000 =>
            (out.path = "refused" /\ lock = out.pre.lock)
      /\ out.at = out.pre.lock.lastRun + 10000 =>
            (out.path # "refused" /\ lock.exists /\ lock.lastRun = out.at) )

\* C12 witness: the second invocation, 1 s after the first, was refused
C12_Witness ==
    /\ out.op = "sessionEnd" /\ out.path = "refused"
    /\ out.pre.lock.lastRun = StartTime
    /\ out.at = StartTime + 1000

\* C13: of the invocations of one SessionEnd event that start within the
\* lock window, overlapping ones included, at most one passes acquireLock
\* and at most one spawns the background process.
C13_AtMostOnePassesLock ==
    \A p, q \in ProcIds :
        ( /\ p # q
          /\ procs[p].pc \in {"check", "spawn", "done"}
          /\ procs[q].pc \in {"check", "spawn", "done"}
          /\ procs[p].path \notin {"refused", "disabled"}
          /\ procs[q].path \notin {"refused", "disabled"} )
        =>
        ( /\ \/ procs[p].t - procs[q].t >= LOCK_WINDOW_MS
             \/ procs[q].t - procs[p].t >= LOCK_WINDOW_MS
          /\ ~(procs[p].path = "spawned" /\ procs[q].path = "spawned") )

\* C14: an invocation the lock refuses exits 0 and leaves the lock, the
\* session record, the ledger, the error log and the spawned processes as
\* they were; so an invocation at least a window after the last one that
\* proceeded passes, however recent the last refused one is.
C14_RefusedHasNoEffect ==
    out.op = "sessionEnd" =>
        /\ out.path = "refused" =>
              /\ out.exitCode = 0
              /\ lock = out.pre.lock
              /\ sessionRecord = out.pre.sessionRecord
              /\ ledger = out.pre.ledger
              /\ errorLog = out.pre.errorLog
              /\ spawned = out.pre.spawned
        /\ ( /\ out.path # "disabled"
             /\ out.pre.lock.exists
             /\ out.at - out.pre.lock.lastRun >= LOCK_WINDOW_MS )
           => out.path # "refused"

\* C14 witness: an invocation passed the lock at the end of the window of
\* the first one, after an attempt in between had been refused
C14_Witness ==
    /\ out.op = "sessionEnd" /\ out.path \notin {"refused", "disabled"}
    /\ out.pre.lock.exists
    /\ out.at = out.pre.lock.lastRun + LOCK_WINDOW_MS
    /\ out.pre.refusedAt > out.pre.lock.lastRun
    /\ out.at - out.pre.refusedAt < LOCK_WINDOW_MS
    /\ lock.lastRun = out.at

\* C15: session end spawns nothing for session s when the session record it
\* reads is marked synced for s; a record marked synced for another session
\* does not make it take the already-synced exit.
C15_SyncedSuppressesSpawn ==
    ( /\ out.op = "sessionEnd"
      /\ out.sessionId # NoSession
      /\ "record" \notin out.faults
      /\ out.pre.sessionRecord.exists
      /\ out.pre.sessionRecord.contextSynced )
    =>
    ( /\ out.pre.sessionRecord.sessionId = out.sessionId =>
            (out.path # "spawned" /\ spawned = out.pre.spawned)
      /\ out.pre.sessionRecord.sessionId # out.sessionId =>
            out.path # "already-synced" )

\* C15 witness: session A, already marked synced, ends again after the
\* window with uncommitted work and takes the already-synced exit
C15_Witness ==
    /\ out.op = "sessionEnd" /\ out.path = "already-synced"
    /\ out.sessionId = "A"
    /\ out.pre.sessionRecord.sessionId = "A"
    /\ out.env.uncommitted > 0
    /\ spawned = <<"A">>

\* C16: session end spawns only if the working tree has uncommitted changes
\* or the session's ledger holds at least minModificationsForSync
\* modifications.
C16_SpawnOnlyWithWork ==
    (out.op = "sessionEnd" /\ out.path = "spawned") =>
        \/ out.env.isGitRepo /\ out.env.uncommitted > 0
        \/ out.sessionModifications >= config.minModificationsForSync

C18_ValidIffNoIssues ==
    out.op = "stop" =>
        LET n(tag) == Cardinality({k \in DOMAIN out.issues : out.issues[k] = tag})
            one(fact) == IF fact THEN 1 ELSE 0
            e == out.env
        IN  /\ out.valid <=> out.issues = <<>>
            /\ out.exitCode = IF out.valid THEN 0 ELSE 1
            /\ n("no-progress-file") = one(~e.progressExists)
            /\ n("missing-sections") =
                  one(e.progressExists /\ \E x \in DOMAIN e.content :
                                             e.content[x] \in {"####", "none"})
            /\ n("commits-since-update") =
                  one(/\ e.isGitRepo /\ e.progressExists /\ e.commits > 0
                      /\ "log" \notin e.failing)
            /\ n("uncommitted-changes") =
                  one(e.isGitRepo /\ e.uncommitted > 0 /\ "status" \notin e.failing)
            /\ n("modifications-without-progress") =
                  one(out.sessionModifications > 0 /\ ~e.progressExists)

\* C18 witness: three facts, three issues, exit status 1
C18_Witness ==
    /\ out.op = "stop"
    /\ out.issues = <<"no-progress-file", "uncommitted-changes",
                      "modifications-without-progress">>
    /\ ~out.valid /\ out.exitCode = 1

\* C19: the summary lists every required section exactly once, as present
\* or as missing, each list in declaration order, a section being present
\* when the artifact writes it as a heading of level 1 to 3 or in bold; when
\* a section is missing the repair template is not empty and has a fragment
\* for each missing section and for no present one; when the artifact exists
\* and no section is missing there is no repair template.
C19_SectionsAndRepair ==
    out.op = "stop" =>
        LET found == out.sectionsPresent
            missing == out.sectionsMissing
            ordered(q) == \A i, j \in DOMAIN q :
                             i < j => \E a, b \in DOMAIN REQUIRED_SECTIONS :
                                         /\ a < b
                                         /\ REQUIRED_SECTIONS[a] = q[i]
                                         /\ REQUIRED_SECTIONS[b] = q[j]
            fragments == {out.autoRepair.template[k].section :
                             k \in DOMAIN out.autoRepair.template}
        IN  /\ Len(found) + Len(missing) = Len(REQUIRED_SECTIONS)
            /\ \A k \in DOMAIN REQUIRED_SECTIONS :
                  \/ REQUIRED_SECTIONS[k] \in SeqToSet(found)
                  \/ REQUIRED_SECTIONS[k] \in SeqToSet(missing)
            /\ ordered(found) /\ ordered(missing)
            /\ out.env.progressExists =>
                  \A x \in DOMAIN out.env.content :
                      x \in SeqToSet(found) <=>
                          out.env.content[x] \in {"#", "##", "###", "**"}
            /\ Len(missing) > 0 =>
                  /\ out.autoRepair.available
                  /\ out.autoRepair.template # <<>>
                  /\ SeqToSet(missing) \subseteq fragments
                  /\ fragments \cap SeqToSet(found) = {}
            /\ (out.env.progressExists /\ Len(missing) = 0) =>
                  ~out.autoRepair.available

\* C19 witness: an artifact with the Current State heading only
C19_Witness ==
    /\ out.op = "stop" /\ out.env.progressExists
    /\ out.sectionsPresent = <<"Current State">>
    /\ out.sectionsMissing = <<"Recent Work", "Next Steps">>
    /\ Len(out.autoRepair.template) = 2

\* C20: with no artifact, no commit, no uncommitted change, no modification
\* of the session and no failed check, the only issue is that the artifact
\* does not exist, and the summary is not valid.
C20_MissingArtifactOnly ==
    ( /\ out.op = "stop"
      /\ ~out.env.progressExists
      /\ out.env.commits = 0 /\ out.env.uncommitted = 0
      /\ out.sessionModifications = 0
      /\ \A k \in DOMAIN out.results : out.results[k].passed )
    =>
    ( out.issues = <<"no-progress-file">> /\ ~out.valid /\ out.exitCode = 1 )

\* C20 witness: that stop, in a repository, for a session with no ledger
C20_Witness ==
    /\ out.op = "stop" /\ out.sessionId = "A"
    /\ ~out.env.progressExists /\ out.env.isGitRepo
    /\ out.env.commits = 0 /\ out.env.uncommitted = 0
    /\ ~ledger.exists
    /\ out.issues = <<"no-progress-file">>

\* C21: when version control is unavailable for the stop hook (the project
\* is not a repository, or a git command throws) the fact that command
\* feeds is null and its issue is absent; with both facts unavailable, the
\* artifact complete and no failed check, the summary is valid.
C21_VcsUnavailableDegrades ==
    out.op = "stop" =>
        LET e == out.env
            has(tag) == \E k \in DOMAIN out.issues : out.issues[k] = tag
            noLog == ~e.isGitRepo \/ "log" \in e.failing
            noStatus == ~e.isGitRepo \/ "status" \in e.failing
        IN  /\ noLog => (out.commitsSinceUpdate = NoCount
                         /\ ~has("commits-since-update"))
            /\ noStatus => (out.uncommittedChanges = NoCount
                            /\ ~has("uncommitted-changes"))
            /\ ( /\ noLog /\ noStatus
                 /\ e.progressExists
                 /\ \A x \in DOMAIN e.content : e.content[x] \in MatchedStyles
                 /\ \A k \in DOMAIN out.results :
                       ~out.results[k].optional => out.results[k].passed )
               => (out.valid /\ out.exitCode = 0)

\* C21 witness: in a repository with a commit since the update and an
\* uncommitted change both git commands throw, and the summary is valid
C21_Witness ==
    /\ out.op = "stop" /\ out.env.isGitRepo
    /\ out.env.failing = {"log", "status"}
    /\ out.env.commits = 1 /\ out.env.uncommitted = 1
    /\ out.commitsSinceUpdate = NoCount /\ out.uncommittedChanges = NoCount
    /\ out.valid

\* C22: a ledger file that is missing, does not parse or is structurally
\* incomplete never makes a hook raise: session start, track-modification,
\* validate-progress, pre-compact and session end all run to their exit.
C22_DamagedLedgerNeverRaises ==
    out.op \in {"sessionStart", "track", "stop", "preCompact", "sessionEnd"} =>
        ~out.raised

\* C23: a check whose execution fails (the exit code is not the expected
\* one, the command is killed on timeout, the output does not match the
\* pattern, the pattern is not a regular expression) is recorded as failed
\* with a reason; the smoke test still runs every other check it tests, in
\* list order.
C23_FailedCheckRecorded ==
    /\ ( /\ out.op = "runVerification"
         /\ \/ out.run.exitCode # out.check.expectedExitCode
            \/ out.check.expectedOutput
                  /\ (~out.check.validPattern \/ ~out.run.matches) )
       => (~out.result.passed /\ out.result.reason # "none")
    /\ (out.op = "runSmokeTests" /\ out.smoke.ran) =>
          LET verification == featureList.items[1].verification
              tests == out.smoke.tests
          IN  /\ {tests[t].check : t \in DOMAIN tests} =
                     {k \in DOMAIN verification : ~verification[k].optional}
              /\ \A t, u \in DOMAIN tests : t < u => tests[t].check < tests[u].check
              /\ \A t \in DOMAIN tests :
                     ~tests[t].passed => tests[t].reason # "none"

\* C24: at a session start with a feature list that is not complete, when
\* the complete item with the greatest completion stamp carries checks the
\* smoke test re-runs them, and a regression is reported iff one of the
\* re-run checks now fails: its command exits with another code than the
\* expected one or its output does not match its pattern.
C24_SmokeReportsRegression ==
    ( /\ out.op = "sessionStart" /\ out.ran /\ out.active
      /\ \E i \in DOMAIN featureList.items :
            /\ featureList.items[i].status = "complete"
            /\ featureList.items[i].completedAt # 0
            /\ featureList.items[i].verification # <<>> )
    =>
    ( /\ out.smoke.ran
      /\ \E i \in DOMAIN featureList.items :
            /\ featureList.items[i].id = out.smoke.itemId
            /\ featureList.items[i].status = "complete"
            /\ \A j \in DOMAIN featureList.items :
                  featureList.items[j].status = "complete" =>
                      featureList.items[j].completedAt <= featureList.items[i].completedAt
            /\ \A t \in DOMAIN out.smoke.tests :
                  out.smoke.tests[t].check \in DOMAIN featureList.items[i].verification
            /\ out.regression <=>
                  \E t \in DOMAIN out.smoke.tests :
                      LET check == featureList.items[i].verification[out.smoke.tests[t].check]
                          run == out.runs[out.smoke.tests[t].check]
                      IN  \/ run.exitCode # check.expectedExitCode
                          \/ check.expectedOutput /\ ~run.matches )

\* C26: with no item in progress, getNextWorkItem returns the pending item
\* of smallest list index among those whose every dependency id is the id
\* of a complete item, and null when there is none; for [A, B depending on
\* A] it returns B when A is complete and B pending, and A when A is
\* pending.
C26_FirstEligiblePending ==
    ( /\ out.op = "getNextWorkItem"
      /\ \A i \in DOMAIN featureList.items :
            featureList.items[i].status # "in-progress" )
    =>
    LET items == featureList.items
        eligible == {i \in DOMAIN items :
                        /\ items[i].status = "pending"
                        /\ \A d \in items[i].dependencies :
                              \E j \in DOMAIN items :
                                  items[j].id = d /\ items[j].status = "complete"}
    IN  /\ eligible = {} => out.item = 0
        /\ eligible # {} =>
              (out.item \in eligible /\ \A j \in eligible : out.item <= j)
        /\ ( /\ Len(items) = 2
             /\ items[1].dependencies = {} /\ items[2].dependencies = {items[1].id}
             /\ items[2].status = "pending" )
           => /\ items[1].status = "complete" => out.item = 2
              /\ items[1].status = "pending" => out.item = 1

\* C26 witness: A is complete, B depends on A and is pending, B is returned
C26_Witness ==
    /\ out.op = "getNextWorkItem" /\ out.item = 2
    /\ featureList.items[1].status = "complete"
    /\ featureList.items[1].dependencies = {}
    /\ featureList.items[2].status = "pending"
    /\ featureList.items[2].dependencies = {featureList.items[1].id}

\* C29: when some item is in progress, getNextWorkItem returns the item in
\* progress of smallest list index, whatever its dependencies and whatever
\* pending item stands before it.
C29_InProgressFirst ==
    ( /\ out.op = "getNextWorkItem"
      /\ \E i \in DOMAIN featureList.items :
            featureList.items[i].status = "in-progress" )
    =>
    ( /\ out.item \in DOMAIN featureList.items
      /\ featureList.items[out.item].status = "in-progress"
      /\ \A j \in DOMAIN featureList.items :
            featureList.items[j].status = "in-progress" => out.item <= j )

\* C29 witness: the second item is returned, in progress with a dependency
\* that is not complete, after a pending item that has no dependency
C29_Witness ==
    /\ out.op = "getNextWorkItem" /\ out.item = 2
    /\ featureList.items[1].status = "pending"
    /\ featureList.items[1].dependencies = {}
    /\ featureList.items[2].status = "in-progress"
    /\ featureList.items[2].dependencies = {featureList.items[1].id}

\* C27: with enabled false no hook invocation (session start, tool use,
\* pre-compact, stop, session end) changes the session record, the ledger,
\* the lock or the feature list, prints a warning into the context, or
\* exits with a status other than 0.
C27_DisabledDoesNothing ==
    ~config.enabled =>
        /\ sessionRecord = NoRecord
        /\ ledger = NoLedger
        /\ lock = NoLock
        /\ featureList = NoFeatureList
        /\ spawned = <<>>
        /\ out.op # "none" => out.exitCode = 0
        /\ out.op = "preCompact" => ~out.warned
        /\ out.op = "sessionStart" => ~out.ran

\* C28: when getNextWorkItem returns null at session start, "all work items
\* complete" is printed only if every item is complete, and "remaining
\* items are blocked" is printed whenever no item is pending or in progress
\* and some item is blocked.
C28_NoneOutcomeExact ==
    ( /\ out.op = "sessionStart" /\ out.ran /\ out.active
      /\ out.nextItem = 0 )
    =>
    LET items == featureList.items
        n(st) == Cardinality({i \in DOMAIN items : items[i].status = st})
    IN  /\ out.outcome = "all-complete" => allItemsComplete(items)
        /\ (n("pending") = 0 /\ n("in-progress") = 0 /\ n("blocked") > 0)
              => out.outcome = "blocked"

\* C30 as stated: in a list with no item in progress where every pending
\* item lies on a dependency cycle, depends on itself, or depends through
\* other items on such an item, getNextWorkItem returns null and no session
\* start or stop changes that.
C30_Original ==
    [][ LET items == featureList.items
            idx == DOMAIN items
            edges == {e \in idx \X idx :
                        /\ items[e[2]].id \in items[e[1]].dependencies}
            Compose(R) == R \cup {e \in idx \X idx :
                                    \E b \in idx : <<e[1], b>> \in R /\ <<b, e[2]>> \in R}
            RECURSIVE Close(_, _)
            Close(R, k) == IF k = 0 THEN R ELSE Close(Compose(R), k - 1)
            reach == Close(edges, Len(items))
            stuck(i) == \E j \in idx : <<i, j>> \in reach /\ <<j, j>> \in reach
        IN  ( /\ \A i \in idx : items[i].status # "in-progress"
              /\ \A i \in idx : items[i].status = "pending" => stuck(i) )
            =>
            ( /\ getNextWorkItem(featureList) = 0
              /\ featureList' = featureList
              /\ ~out'.raised
              /\ out'.op = "stop" => out'.item = 0
              /\ (out'.op = "sessionStart" /\ out'.active) => out'.nextItem = 0 )
      ]_vars

\* C30: in a list with no item in progress where every pending item lies on
\* a dependency cycle of items that are not complete, depends on itself, or
\* depends through items that are not complete on such an item,
\* getNextWorkItem returns null, and every session start and every stop
\* leaves the list as it is, selects no item and raises nothing: the
\* condition holds again after the step, so it holds forever.
C30_CycleNeverEligible ==
    [][ LET items == featureList.items
            idx == DOMAIN items
            edges == {e \in idx \X idx :
                        /\ items[e[2]].id \in items[e[1]].dependencies
                        /\ items[e[2]].status # "complete"}
            Compose(R) == R \cup {e \in idx \X idx :
                                    \E b \in idx : <<e[1], b>> \in R /\ <<b, e[2]>> \in R}
            RECURSIVE Close(_, _)
            Close(R, k) == IF k = 0 THEN R ELSE Close(Compose(R), k - 1)
            reach == Close(edges, Len(items))
            stuck(i) == \E j \in idx : <<i, j>> \in reach /\ <<j, j>> \in reach
        IN  ( /\ \A i \in idx : items[i].status # "in-progress"
              /\ \A i \in idx : items[i].status = "pending" => stuck(i) )
            =>
            ( /\ getNextWorkItem(featureList) = 0
              /\ featureList' = featureList
              /\ ~out'.raised
              /\ out'.op = "stop" => out'.item = 0
              /\ (out'.op = "sessionStart" /\ out'.active) => out'.nextItem = 0 )
      ]_vars

\* C30 witness: a stop found two pending items that depend on each other,
\* selected none and left the list as it was
C30_Witness ==
    /\ out.op = "stop" /\ out.item = 0 /\ ~out.raised
    /\ Len(featureList.items) = 2
    /\ featureList = ghost.before
    /\ featureList.items[1].status = "pending"
    /\ featureList.items[2].status = "pending"
    /\ featureList.items[1].dependencies = {featureList.items[2].id}
    /\ featureList.items[2].dependencies = {featureList.items[1].id}

\* C31: the ledger's path sequence has no duplicate, its counter is the
\* number of recorded events since the last reset and at least the number
\* of its paths; a recorded event of the ledger's session keeps the paths
\* already there in their order, appends its path only if it is new, adds
\* exactly one to the counter and stamps the time of the event.
C31_LedgerCounts ==
    /\ \A i, j \in DOMAIN ledger.files : i # j => ledger.files[i] # ledger.files[j]
    /\ ledger.count = Len(ghost.events)
    /\ ledger.count >= Len(ledger.files)
    /\ (out.op = "track" /\ out.recorded) =>
          /\ ledger.lastModified = out.at
          /\ out.path \in SeqToSet(ledger.files)
          /\ ~differentSession(out.sessionId, out.pre.sessionId) =>
                /\ ledger.count = out.pre.count + 1
                /\ ledger.files = IF out.path \in SeqToSet(out.pre.files)
                                  THEN out.pre.files
                                  ELSE Append(out.pre.files, out.path)

\* C31 witness: session A touched src/a.js, src/b.js and src/a.js again:
\* two paths in the order of their first event, three events counted
C31_Witness ==
    /\ out.op = "track" /\ out.recorded /\ out.sessionId = "A"
    /\ out.path = "src/a.js"
    /\ ledger.files = <<"src/a.js", "src/b.js">>
    /\ ledger.count = 3
    /\ ghost.events = <<"A", "A", "A">>

\* C32: a file-modification event whose path is one of the engine's own
\* persisted artifacts leaves the ledger as it was before the event, also
\* when the event carries another session id than the ledger's owner.
C32_EngineWritesIgnored ==
    (out.op = "track" /\ out.path \in EngineArtifacts) => ledger = out.pre

\* C34: when the smoke test runs the checks of the last completed item,
\* every check of the item, the optional ones included, is executed and has
\* its result among the reported tests.
C34_OptionalChecksReported ==
    (out.op = "runSmokeTests" /\ out.smoke.ran) =>
        \A k \in DOMAIN featureList.items[1].verification :
            \E t \in DOMAIN out.smoke.tests : out.smoke.tests[t].check = k

\* C35: after a session start that carries session id s, the session record
\* is the fresh record of s (not synced), and a ledger that is still there
\* is owned by s and holds only what events of s recorded: no data of
\* another or of an unknown session is left.
C35_StartReconciles ==
    (out.op = "sessionStart" /\ out.ran /\ out.sessionId # NoSession) =>
        /\ sessionRecord.exists
        /\ sessionRecord.sessionId = out.sessionId
        /\ ~sessionRecord.contextSynced
        /\ ledger.exists =>
              /\ ledger.sessionId = out.sessionId
              /\ \A k \in DOMAIN ghost.events : ghost.events[k] = out.sessionId

\* C36: the background finalize is spawned at most once for a session id:
\* a SessionEnd invocation that spawns finds no earlier spawn for its
\* session id, whatever session starts happened since.
C36_SpawnedOncePerSession ==
    (out.op = "sessionEnd" /\ out.path = "spawned") =>
        out.sessionId \notin SeqToSet(out.pre.spawned)

\* C37: markSynced(s) applied to the record another session's start wrote
\* yields a record of s alone: the start time that session start stamped is
\* not kept under the session id s.
C37_RecordOfOneSession ==
    ( /\ out.op = "sessionEnd" /\ out.path = "spawned"
      /\ out.pre.sessionRecord.exists
      /\ out.pre.sessionRecord.sessionId # out.sessionId )
    =>
    ( /\ sessionRecord.sessionId = out.sessionId
      /\ sessionRecord.startTime = NoRecord.startTime )

\* C38: a session-end invocation that passes the config gate and the lock
\* leaves its own time in the lock file whichever exit it then takes, so an
\* exit invocation with a session id that comes less than 5 seconds after
\* an invocation without session id or with another reason is refused.
C38_LockBeforeChecks ==
    [][ (out' # out /\ out'.op = "sessionEnd") =>
          /\ (out'.path \notin {"disabled", "refused"} /\ "lock" \notin out'.faults)
                => lock' = [exists |-> TRUE, lastRun |-> out'.at]
          /\ ( /\ out.op = "sessionEnd"
               /\ out.path \in {"no-session", "not-exit"}
               /\ out'.reason = "exit" /\ out'.sessionId # NoSession
               /\ out'.at - out.at < LOCK_WINDOW_MS
               /\ "lock" \notin out'.faults )
             => out'.path = "refused" ]_vars

\* C38 witness: the exit of session A, with uncommitted work and nothing
\* spawned or logged before, is refused 1 s after an invocation that wrote
\* the lock and left without spawning
C38_Witness ==
    /\ out.op = "sessionEnd" /\ out.reason = "exit" /\ out.sessionId = "A"
    /\ out.path = "refused"
    /\ out.env.isGitRepo /\ out.env.uncommitted > 0
    /\ out.pre.lock = [exists |-> TRUE, lastRun |-> StartTime]
    /\ out.at = StartTime + 1000
    /\ out.pre.spawned = <<>> /\ out.pre.errorLog = 0
    /\ ~out.pre.sessionRecord.exists

\* C40: an invocation past the config gate is refused exactly when the
\* lock file exists, holds a number and that number is less than 5000 ms
\* before the time of the invocation (a later time included); a refusal
\* leaves the lock file alone and any other outcome leaves the time of the
\* invocation in it.  When the lock handling throws, the invocation is not
\* refused, the lock file is not written and the error is logged.
C40_LockWindow ==
    (out.op = "sessionEnd" /\ out.path # "disabled") =>
        LET last == out.pre.lock.lastRun
        IN  IF "lock" \in out.faults
            THEN /\ out.path # "refused"
                 /\ lock = out.pre.lock
                 /\ errorLog > out.pre.errorLog
            ELSE /\ out.path = "refused" <=>
                       /\ out.pre.lock.exists
                       /\ last # NaN
                       /\ out.at - last < 5000
                 /\ lock = IF out.path = "refused" THEN out.pre.lock
                           ELSE [exists |-> TRUE, lastRun |-> out.at]

\* C40 witness: the lock file holds a time 10 s after the invocation, which
\* is refused
C40_Witness ==
    /\ out.op = "sessionEnd" /\ out.path = "refused"
    /\ out.pre.lock.exists
    /\ out.pre.lock.lastRun = out.at + 2 * LOCK_WINDOW_MS

\* C33: when invocations overlap, the artifact is what the last writer
\* made of the copy it had read.  After a file-modification event saved,
\* the ledger counts one more than the copy that invocation loaded (or one,
\* after a reset) and holds that copy's paths and the event's path, and
\* nothing another invocation wrote in between; after markSynced saved, the
\* record is synced for its session with the start time of the copy it
\* read; after a session start the record is the fresh, unsynced one.
C33_LastWriterWins ==
    /\ out.op = "track" =>
          LET reset == differentSession(out.sessionId, out.pre.sessionId)
          IN  /\ ledger.count = (IF reset THEN 0 ELSE out.pre.count) + 1
              /\ SeqToSet(ledger.files) =
                    (IF reset THEN {} ELSE SeqToSet(out.pre.files)) \cup {out.path}
              /\ ledger.sessionId = out.sessionId
    /\ out.op = "markSynced" =>
          /\ sessionRecord.contextSynced
          /\ sessionRecord.sessionId = out.sessionId
          /\ sessionRecord.startTime = out.pre.startTime
    /\ (out.op = "sessionStart" /\ out.sessionId # NoSession) =>
          /\ ~sessionRecord.contextSynced
          /\ sessionRecord.sessionId = out.sessionId
          /\ sessionRecord.startTime = now

\* C33 witness: two events of session A on different paths both saved and
\* the ledger holds one path and counts one; markSynced saved and the
\* record, written last by a session start, is not synced
C33_Witness ==
    /\ \A p \in ProcIds : procs[p].pc = "saved" /\ procs[p].sessionId = "A"
    /\ procs[1].path # procs[2].path
    /\ ledger.count = 1 /\ Len(ledger.files) = 1
    /\ procs[0].pc = "saved" /\ procs[0].sessionId = "A"
    /\ out.op = "sessionStart" /\ out.sessionId = "A"
    /\ ~sessionRecord.contextSynced

\* C39: on a feature list with no blocked item and acyclic dependencies
\* among its own items, with required checks that pass, repeated session
\* starts and stops lead to every item and the list being complete, for
\* good; every stop before that completes exactly one item; and
\* getNextWorkItem returns null only when every item is complete.
C39_EventuallyAllComplete ==
    /\ <>[](featureList.status = "complete" /\ allItemsComplete(featureList.items))
    /\ [][ (out'.op = "stop" /\ ~allItemsComplete(featureList.items)) =>
             /\ out'.item # 0
             /\ featureList.items[out'.item].status # "complete"
             /\ completedIds(featureList') =
                   completedIds(featureList) \cup {featureList.items[out'.item].id}
          ]_vars
    /\ [](getNextWorkItem(featureList) = 0 => allItemsComplete(featureList.items))

\* C39 witness: of two items, the second depending on the first, both were
\* completed by a stop and the list is complete
C39_Witness ==
    /\ Len(featureList.items) = 2
    /\ featureList.items[2].dependencies = {featureList.items[1].id}
    /\ featureList.status = "complete" /\ allItemsComplete(featureList.items)
    /\ \A i \in 1..2 : ghost.completedWith[featureList.items[i].id].how = "stop"
    /\ out.op = "stop" /\ out.item = 2

====
